---- MODULE Spec2Model ----
(***************************************************************************)
(* Model of phoneme_analysis.py: the text normaliser, the process-wide     *)
(* phoneme_cache, Passage construction (clean, transcribe, count,          *)
(* validate) and Corpus (passage cache on disk, OOV union, OOV export).    *)
(*                                                                         *)
(* A string is a sequence of one-character strings.  A phoneme symbol is   *)
(* a sequence of tokens whose last token may be a stress digit, so that    *)
(* re.sub(r'\d$', '', p) is modelled by what it removes.  A Python dict is *)
(* a function; the key order that dict(sorted(...)) fixes has no           *)
(* counterpart, a function being unordered.                                *)
(***************************************************************************)
EXTENDS Integers, Sequences, FiniteSets, TLC

VARIABLES
    phoneme_cache,  \* module-level dict: word -> first pronunciation variant
    files,          \* the corpus directory: file name -> raw content
    pickles,        \* directory/cached: pickle name -> pickled Passage
    outfiles,       \* files written outside the corpus directory
    passage,        \* the Passage last constructed directly, or None
    corpus,         \* the Corpus last constructed, or None
    raised,         \* the last construction raised ValueError
    stdout,         \* the last line printed by print()
    queries,        \* instrumentation: word -> dictionary queries in this process
    first,          \* instrumentation: word -> result of its first lookup
    loaded,         \* instrumentation: names of corpus passages read from pickles
    ntext,          \* normaliser harness: the text being cleaned
    nhist           \* normaliser harness: the input and the successive values of ntext

vars == <<phoneme_cache, files, pickles, outfiles, passage, corpus, raised,
          stdout, queries, first, loaded, ntext, nhist>>

\* Python's None where an object is expected
None == [none |-> TRUE]

\* None where a name or a path is expected
NoName == <<"None">>

\* nothing printed yet
NoOutput == ""

(***************************************************************************)
(* Bounds                                                                  *)
(***************************************************************************)
MaxLen == 3      \* longest input string given to the normaliser harness

(***************************************************************************)
(* Characters                                                              *)
(***************************************************************************)
NL == "\n"
TAB == "\t"
RSQUO == "rsquo"      \* U+2019 RIGHT SINGLE QUOTATION MARK
APOS == "'"

Digits == {"0", "1", "2", "3", "4", "5", "6", "7", "8", "9"}
LowerLetters == {"a", "t"}
UpperLetters == {"A", "T"}
SpaceChars == {" ", NL, TAB}

\* str.lower() on one character
lower_char(c) == IF c = "A" THEN "a" ELSE IF c = "T" THEN "t" ELSE c

\* the class \w of re
is_word_char(c) == c \in LowerLetters \cup UpperLetters \cup Digits \cup {"_"}

\* the class \s of re
is_space_char(c) == c \in SpaceChars

RECURSIVE lower(_)
\* str.lower()
lower(s) ==
    IF s = <<>> THEN <<>>
    ELSE <<lower_char(Head(s))>> \o lower(Tail(s))

RECURSIVE replace_char(_, _, _)
\* str.replace(old, new) for one-character old and new
replace_char(s, old, new) ==
    IF s = <<>> THEN <<>>
    ELSE <<IF Head(s) = old THEN new ELSE Head(s)>> \o replace_char(Tail(s), old, new)

RECURSIVE remove_punct(_)
\* re.sub(r"[^\w\s']", '', s)
remove_punct(s) ==
    IF s = <<>> THEN <<>>
    ELSE IF is_word_char(Head(s)) \/ is_space_char(Head(s)) \/ Head(s) = APOS
         THEN <<Head(s)>> \o remove_punct(Tail(s))
         ELSE remove_punct(Tail(s))

RECURSIVE collapse_spaces(_)
\* re.sub(r'\s+', ' ', s)
collapse_spaces(s) ==
    IF s = <<>> THEN <<>>
    ELSE IF is_space_char(Head(s))
         THEN IF Len(s) > 1 /\ is_space_char(s[2])
              THEN collapse_spaces(Tail(s))
              ELSE <<" ">> \o collapse_spaces(Tail(s))
         ELSE <<Head(s)>> \o collapse_spaces(Tail(s))

RECURSIVE lstrip(_)
lstrip(s) ==
    IF s # <<>> /\ is_space_char(Head(s)) THEN lstrip(Tail(s)) ELSE s

RECURSIVE rstrip(_)
rstrip(s) ==
    IF s # <<>> /\ is_space_char(s[Len(s)]) THEN rstrip(SubSeq(s, 1, Len(s) - 1)) ELSE s

\* str.strip()
strip(s) == rstrip(lstrip(s))

\* a slip: whitespace is collapsed and trimmed before punctuation is removed
clean_text_collapse_first(text) ==
    remove_punct(strip(collapse_spaces(
        replace_char(replace_char(lower(text), NL, " "), RSQUO, APOS))))

\* Passage.__clean_text
clean_text(text) ==
    strip(collapse_spaces(remove_punct(
        replace_char(replace_char(lower(text), NL, " "), RSQUO, APOS))))

(***************************************************************************)
(* The pronunciation dictionary (cmudict.dict(), a defaultdict(list)):     *)
(* a stub with entries in the CMU format.  A word without an entry, the    *)
(* empty word included, gets the empty list of variants.                   *)
(***************************************************************************)
W_a == <<"a">>
W_at == <<"a", "t">>
W_tat == <<"t", "a", "t">>
W_tata == <<"t", "a", "t", "a">>

P_T == <<"T">>
P_AH0 == <<"AH", "0">>
P_AH1 == <<"AH", "1">>
P_EY1 == <<"EY", "1">>
P_AE1 == <<"AE", "1">>
P_AA1 == <<"AA", "1">>

CmuEntries ==
    (W_a :> << <<P_AH0>>, <<P_EY1>> >>) @@
    (W_at :> << <<P_AE1, P_T>> >>) @@
    (W_tat :> << <<P_T, P_AE1, P_T>> >>) @@
    (W_tata :> << <<P_T, P_AA1, P_T, P_AH1>>, <<P_T, P_AA1, P_T, P_AH0>> >>)

\* cmudict.dict()[word]
cmudict_dict(word) ==
    IF word \in DOMAIN CmuEntries THEN CmuEntries[word] ELSE <<>>

(***************************************************************************)
(* Passage.__to_phonemes                                                   *)
(***************************************************************************)
\* index of the first " " of s, 0 when there is none
find_space(s) ==
    IF \E i \in 1..Len(s) : s[i] = " "
    THEN CHOOSE i \in 1..Len(s) : s[i] = " " /\ \A j \in 1..(i - 1) : s[j] # " "
    ELSE 0

RECURSIVE split(_)
\* str.split(' ')
split(s) ==
    LET i == find_space(s)
    IN  IF i = 0 THEN <<s>>
        ELSE <<SubSeq(s, 1, i - 1)>> \o split(SubSeq(s, i + 1, Len(s)))

\* instrumentation of one dictionary query
count_query(st, word, result) ==
    [st EXCEPT !.queries = IF word \in DOMAIN @ THEN [@ EXCEPT ![word] = @ + 1]
                           ELSE @ @@ (word :> 1)]

\* instrumentation of one lookup, cached or not
note_lookup(st, word, result) ==
    [st EXCEPT !.first = IF word \in DOMAIN @ THEN @ ELSE @ @@ (word :> result)]

\* a slip: an out-of-vocabulary word is not stored in phoneme_cache
lookup_word_oov_uncached(st, word) ==
    IF word \in DOMAIN st.cache
    THEN note_lookup([st EXCEPT !.phon_transcript = Append(@, <<word, st.cache[word]>>)],
                     word, st.cache[word])
    ELSE LET variants == cmudict_dict(word)
             q == count_query(st, word, variants)
         IN  IF variants # <<>>
             THEN note_lookup([q EXCEPT !.cache = @ @@ (word :> variants[1]),
                                        !.phon_transcript = Append(@, <<word, variants[1]>>)],
                              word, variants[1])
             ELSE note_lookup([q EXCEPT !.oovs = Append(@, word),
                                        !.phon_transcript = Append(@, <<word, variants>>)],
                              word, variants)

\* re.sub(r'\d$', '', p)
strip_stress(p) ==
    IF p # <<>> /\ p[Len(p)] \in Digits THEN SubSeq(p, 1, Len(p) - 1) ELSE p

\* a slip: a pronunciation is cached with its stress digits removed
lookup_word_cache_stripped(st, word) ==
    IF word \in DOMAIN st.cache
    THEN note_lookup([st EXCEPT !.phon_transcript = Append(@, <<word, st.cache[word]>>)],
                     word, st.cache[word])
    ELSE LET variants == cmudict_dict(word)
             q == count_query(st, word, variants)
         IN  IF variants # <<>>
             THEN note_lookup([q EXCEPT !.cache = @ @@ (word :>
                                            [i \in 1..Len(variants[1]) |-> strip_stress(variants[1][i])]),
                                        !.phon_transcript = Append(@, <<word, variants[1]>>)],
                              word, variants[1])
             ELSE note_lookup([q EXCEPT !.cache = @ @@ (word :> <<>>),
                                        !.oovs = Append(@, word),
                                        !.phon_transcript = Append(@, <<word, variants>>)],
                              word, variants)

\* the body of the loop of Passage.__to_phonemes, for one word
lookup_word(st, word) ==
    IF word \in DOMAIN st.cache
    THEN note_lookup([st EXCEPT !.phon_transcript = Append(@, <<word, st.cache[word]>>)],
                     word, st.cache[word])
    ELSE LET variants == cmudict_dict(word)
             q == count_query(st, word, variants)
         IN  IF variants # <<>>
             THEN note_lookup([q EXCEPT !.cache = @ @@ (word :> variants[1]),
                                        !.phon_transcript = Append(@, <<word, variants[1]>>)],
                              word, variants[1])
             ELSE note_lookup([q EXCEPT !.cache = @ @@ (word :> <<>>),
                                        !.oovs = Append(@, word),
                                        !.phon_transcript = Append(@, <<word, variants>>)],
                              word, variants)

RECURSIVE lookup_words(_, _)
\* the loop of Passage.__to_phonemes over the words
lookup_words(st, words) ==
    IF words = <<>> THEN st
    ELSE lookup_words(lookup_word(st, Head(words)), Tail(words))

\* Passage.__to_phonemes: text is self.text, mem the process state
\* [cache, queries, first]; the result carries phon_transcript and oovs
to_phonemes(text, mem) ==
    lookup_words([cache |-> mem.cache, queries |-> mem.queries, first |-> mem.first,
                  oovs |-> <<>>, phon_transcript |-> <<>>],
                 split(text))

(***************************************************************************)
(* Passage.__get_phoneme_stats                                             *)
(***************************************************************************)
\* the position bucket of index i (from 0) in a word of n_ph >= 2 phonemes
pos_idx(i, n_ph) ==
    IF i > 0
    THEN IF i = n_ph - 1 THEN 2 ELSE 1
    ELSE 0

\* a slip: an already counted phoneme is set to 1 instead of incremented
count_phoneme_no_increment(st, p0, i, n_ph, ignore_stress) ==
    LET p == IF ignore_stress THEN strip_stress(p0) ELSE p0
        c == IF p \in DOMAIN st.phoneme_count
             THEN [st.phoneme_count EXCEPT ![p] = 1]
             ELSE st.phoneme_count @@ (p :> 1)
        b == IF p \notin DOMAIN st.phoneme_count_by_pos
             THEN st.phoneme_count_by_pos @@ (p :> <<0, 0, 0>>)
             ELSE st.phoneme_count_by_pos
    IN  [phoneme_count |-> c,
         phoneme_count_by_pos |->
            IF n_ph >= 2 THEN [b EXCEPT ![p][pos_idx(i, n_ph) + 1] = @ + 1] ELSE b]

\* a slip: the last phoneme of a word is taken for medial unless n_ph > 2
count_phoneme_final_off(st, p0, i, n_ph, ignore_stress) ==
    LET p == IF ignore_stress THEN strip_stress(p0) ELSE p0
        c == IF p \in DOMAIN st.phoneme_count
             THEN [st.phoneme_count EXCEPT ![p] = @ + 1]
             ELSE st.phoneme_count @@ (p :> 1)
        b == IF p \notin DOMAIN st.phoneme_count_by_pos
             THEN st.phoneme_count_by_pos @@ (p :> <<0, 0, 0>>)
             ELSE st.phoneme_count_by_pos
        pi == IF i > 0 THEN IF i = n_ph - 1 /\ n_ph > 2 THEN 2 ELSE 1 ELSE 0
    IN  [phoneme_count |-> c,
         phoneme_count_by_pos |->
            IF n_ph >= 2 THEN [b EXCEPT ![p][pi + 1] = @ + 1] ELSE b]

\* the body of the inner loop: phoneme p0 at index i (from 0) of a word of
\* n_ph phonemes
count_phoneme(st, p0, i, n_ph, ignore_stress) ==
    LET p == IF ignore_stress THEN strip_stress(p0) ELSE p0
        c == IF p \in DOMAIN st.phoneme_count
             THEN [st.phoneme_count EXCEPT ![p] = @ + 1]
             ELSE st.phoneme_count @@ (p :> 1)
        b == IF p \notin DOMAIN st.phoneme_count_by_pos
             THEN st.phoneme_count_by_pos @@ (p :> <<0, 0, 0>>)
             ELSE st.phoneme_count_by_pos
    IN  [phoneme_count |-> c,
         phoneme_count_by_pos |->
            IF n_ph >= 2 THEN [b EXCEPT ![p][pos_idx(i, n_ph) + 1] = @ + 1] ELSE b]

RECURSIVE count_word(_, _, _, _)
\* the inner loop: for i, p in enumerate(phonemes), from index i on
count_word(st, phonemes, i, ignore_stress) ==
    IF i >= Len(phonemes) THEN st
    ELSE count_word(count_phoneme(st, phonemes[i + 1], i, Len(phonemes), ignore_stress),
                    phonemes, i + 1, ignore_stress)

RECURSIVE count_words(_, _, _)
\* the outer loop: for _, phonemes in self.phon_trans
count_words(st, phon_trans, ignore_stress) ==
    IF phon_trans = <<>> THEN st
    ELSE count_words(count_word(st, Head(phon_trans)[2], 0, ignore_stress),
                     Tail(phon_trans), ignore_stress)

\* Passage.__get_phoneme_stats
get_phoneme_stats(phon_trans, ignore_stress) ==
    count_words([phoneme_count |-> <<>>, phoneme_count_by_pos |-> <<>>],
                phon_trans, ignore_stress)

\* sum(v) for a list of three counts
sum3(v) == v[1] + v[2] + v[3]

\* Passage.__check_counts: TRUE when it does not raise
check_counts(phoneme_count, phoneme_count_by_pos) ==
    \A k \in DOMAIN phoneme_count : phoneme_count[k] >= sum3(phoneme_count_by_pos[k])

RECURSIVE sum_values(_, _)
\* sum(d.values()), over the keys ks of d
sum_values(d, ks) ==
    IF ks = {} THEN 0
    ELSE LET k == CHOOSE x \in ks : TRUE
         IN  d[k] + sum_values(d, ks \ {k})

(***************************************************************************)
(* Passage.__init__                                                        *)
(***************************************************************************)
\* Passage(text, name, ignore_stress) run in process state mem, where raw is
\* the text read by __read_input_text.  The result holds the object, the
\* process state left behind and whether __check_counts raised.
new_passage(raw, name, ignore_stress, mem) ==
    LET text == clean_text(raw)
        t == to_phonemes(text, mem)
        s == get_phoneme_stats(t.phon_transcript, ignore_stress)
    IN  [mem |-> [cache |-> t.cache, queries |-> t.queries, first |-> t.first],
         raised |-> ~check_counts(s.phoneme_count, s.phoneme_count_by_pos),
         obj |-> [name |-> name,
                  oovs |-> t.oovs,
                  ignore_stress |-> ignore_stress,
                  text |-> text,
                  phon_trans |-> t.phon_transcript,
                  phoneme_count |-> s.phoneme_count,
                  phoneme_count_by_pos |-> s.phoneme_count_by_pos,
                  n_phonemes |-> sum_values(s.phoneme_count, DOMAIN s.phoneme_count),
                  n_unique_phonemes |-> Cardinality(DOMAIN s.phoneme_count),
                  n_words |-> Len(t.phon_transcript)]]

(***************************************************************************)
(* Corpus                                                                  *)
(***************************************************************************)
F1 == <<"p1", "txt">>
Notes == <<"notes", "md">>
OovsTxt == <<"oovs", "txt">>        \* directory + '/oovs.txt'
OutPath == <<"report", "lst">>      \* an explicit outpath outside the directory

\* filename.endswith('.txt')
endswith_txt(filename) == filename[2] = "txt"

\* filename.replace('.txt', '.pkl')
pkl_name(filename) == <<filename[1], "pkl">>

\* the orders in which os.listdir may give the names in S
listings(S) ==
    {l \in [1..Cardinality(S) -> S] : \A i, j \in 1..Cardinality(S) : l[i] = l[j] => i = j}

RECURSIVE select_seq(_, _, _)
\* the elements x of seq with (x \in S) = keep, in order
select_seq(seq, S, keep) ==
    IF seq = <<>> THEN <<>>
    ELSE (IF (Head(seq) \in S) = keep THEN <<Head(seq)>> ELSE <<>>)
         \o select_seq(Tail(seq), S, keep)

RECURSIVE analyze_new_files(_, _, _, _, _)
\* the second loop of Corpus.__load_passages: st is [mem, raised, passages,
\* pickles]; a ValueError leaves the loop
analyze_new_files(st, new_files, dir, ignore_stress, cache) ==
    IF new_files = <<>> \/ st.raised THEN st
    ELSE LET f == Head(new_files)
             r == new_passage(dir[f], f, ignore_stress, st.mem)
         IN  IF r.raised
             THEN [st EXCEPT !.mem = r.mem, !.raised = TRUE]
             ELSE analyze_new_files(
                    [mem |-> r.mem,
                     raised |-> FALSE,
                     passages |-> Append(st.passages, r.obj),
                     pickles |-> IF cache
                                 THEN [k \in DOMAIN st.pickles \cup {pkl_name(f)} |->
                                          IF k = pkl_name(f) THEN r.obj ELSE st.pickles[k]]
                                 ELSE st.pickles],
                    Tail(new_files), dir, ignore_stress, cache)

\* Corpus.__load_passages, for the listing txt_files
load_passages(txt_files, dir, store, ignore_stress, cache, load_from_cache, mem) ==
    LET hit == {f \in DOMAIN dir : load_from_cache /\ pkl_name(f) \in DOMAIN store}
        cached == select_seq(txt_files, hit, TRUE)
        new_files == select_seq(txt_files, hit, FALSE)
    IN  analyze_new_files(
            [mem |-> mem, raised |-> FALSE,
             passages |-> [i \in 1..Len(cached) |-> store[pkl_name(cached[i])]],
             pickles |-> store],
            new_files, dir, ignore_stress, cache)

RECURSIVE flatten_oovs(_)
\* [oov for oovlist in all_oovs for oov in oovlist]
flatten_oovs(passages) ==
    IF passages = <<>> THEN <<>>
    ELSE Head(passages).oovs \o flatten_oovs(Tail(passages))

\* a slip: the OOV lists are concatenated without set()
find_oovs_no_set(passages) == {flatten_oovs(passages)}

\* Corpus.__find_oovs: the lists that list(set(...)) may give
find_oovs(passages) ==
    LET all_oovs == flatten_oovs(passages)
    IN  listings({all_oovs[i] : i \in 1..Len(all_oovs)})

RECURSIVE join(_, _)
\* sep.join(words), sep one character
join(words, sep) ==
    IF words = <<>> THEN <<>>
    ELSE IF Len(words) = 1 THEN Head(words)
    ELSE Head(words) \o <<sep>> \o join(Tail(words), sep)

(***************************************************************************)
(* Inputs                                                                  *)
(***************************************************************************)
Txt_at_tata_a_tt == <<"A", "t", " ", "t", "a", "t", "a", " ", "a", " ", "t", "t", ".">>
Txt_a_tat == <<"a", TAB, "T", "A", "T", "!">>
Txt_empty == <<>>
Txt_tt_a_t_a_tt == <<"t", "t", " ", "a", NL, "T", RSQUO, "a", " ", "t", "t">>
Txt_notes == <<"t", "a", "t">>
Txt_tt == <<"T", "t", ".">>

\* the texts a Passage is constructed from directly
RawTexts == {Txt_at_tata_a_tt, Txt_a_tat, Txt_empty, Txt_tt_a_t_a_tt, Txt_tt}

NormAlphabet == {"a", "A", "1", "_", " ", NL, TAB, APOS, RSQUO, "."}

NormInputs == UNION {[1..n -> NormAlphabet] : n \in 0..MaxLen}

EmptyMem == [cache |-> <<>>, queries |-> <<>>, first |-> <<>>]

(***************************************************************************)
(* Initial state: a directory with two text files and a file that is not   *)
(* a text file, no cached directory yet, a fresh process                   *)
(***************************************************************************)
InitProcess ==
    /\ phoneme_cache = <<>>
    /\ passage = None
    /\ corpus = None
    /\ raised = FALSE
    /\ stdout = NoOutput
    /\ queries = <<>>
    /\ first = <<>>
    /\ loaded = {}

Init ==
    /\ InitProcess
    /\ files = (F1 :> Txt_tt_a_t_a_tt) @@ (Notes :> Txt_notes)
    /\ pickles = <<>>
    /\ outfiles = <<>>
    /\ ntext = <<>>
    /\ nhist = <<>>

(***************************************************************************)
(* Operations                                                              *)
(***************************************************************************)
\* p = Passage(raw, ignore_stress = ignore_stress), raw a string of text
NewPassage(raw, ignore_stress) ==
    \E r \in {new_passage(raw, NoName, ignore_stress,
                         [cache |-> phoneme_cache, queries |-> queries, first |-> first])} :
        /\ phoneme_cache' = r.mem.cache
        /\ queries' = r.mem.queries
        /\ first' = r.mem.first
        /\ raised' = r.raised
        /\ passage' = IF r.raised THEN passage ELSE r.obj
        /\ UNCHANGED <<files, pickles, outfiles, corpus, stdout, loaded, ntext, nhist>>

\* c = Corpus(directory, ignore_stress, cache, load_from_cache)
NewCorpus(ignore_stress, cache, load_from_cache) ==
    \E txt_files \in listings({f \in DOMAIN files : endswith_txt(f)}) :
        \E r \in {load_passages(txt_files, files, pickles, ignore_stress, cache,
                               load_from_cache,
                               [cache |-> phoneme_cache, queries |-> queries, first |-> first])},
           hit \in {{f \in DOMAIN files :
                        endswith_txt(f) /\ load_from_cache /\ pkl_name(f) \in DOMAIN pickles}} :
            /\ phoneme_cache' = r.mem.cache
            /\ queries' = r.mem.queries
            /\ first' = r.mem.first
            /\ raised' = r.raised
            /\ pickles' = r.pickles
            /\ stdout' = IF hit = {} THEN stdout ELSE "Loading passage data"
            /\ IF r.raised
               THEN UNCHANGED <<corpus, loaded>>
               ELSE /\ \E oovs \in find_oovs(r.passages) :
                         corpus' = [ignore_stress |-> ignore_stress,
                                    passages |-> r.passages,
                                    oovs |-> oovs]
                    /\ loaded' = hit
            /\ UNCHANGED <<files, outfiles, passage, ntext, nhist>>

\* a slip: the file is written whether or not there are OOV words
ExportOovs_always_writes(outpath) ==
    /\ corpus # None
    /\ LET data == join(corpus.oovs, NL)
       IN  IF outpath = NoName
           THEN /\ files' = [k \in DOMAIN files \cup {OovsTxt} |->
                                IF k = OovsTxt THEN data ELSE files[k]]
                /\ UNCHANGED <<outfiles>>
           ELSE /\ outfiles' = [k \in DOMAIN outfiles \cup {outpath} |->
                                   IF k = outpath THEN data ELSE outfiles[k]]
                /\ UNCHANGED <<files>>
    /\ stdout' = IF Len(corpus.oovs) > 0 THEN stdout ELSE "No OOV words in the corpus."
    /\ UNCHANGED <<phoneme_cache, pickles, passage, corpus, raised, queries, first,
                   loaded, ntext, nhist>>

\* c.export_oovs(outpath)
ExportOovs(outpath) ==
    /\ corpus # None
    /\ IF Len(corpus.oovs) > 0
       THEN LET data == join(corpus.oovs, NL)
            IN  IF outpath = NoName
                THEN /\ files' = [k \in DOMAIN files \cup {OovsTxt} |->
                                     IF k = OovsTxt THEN data ELSE files[k]]
                     /\ UNCHANGED <<outfiles, stdout>>
                ELSE /\ outfiles' = [k \in DOMAIN outfiles \cup {outpath} |->
                                        IF k = outpath THEN data ELSE outfiles[k]]
                     /\ UNCHANGED <<files, stdout>>
       ELSE /\ stdout' = "No OOV words in the corpus."
            /\ UNCHANGED <<files, outfiles>>
    /\ UNCHANGED <<phoneme_cache, pickles, passage, corpus, raised, queries, first,
                   loaded, ntext, nhist>>

\* the interpreter exits and a new one starts: the module-level
\* phoneme_cache = {} is run again, the objects are gone, the files stay
NewProcess ==
    /\ phoneme_cache' = <<>>
    /\ passage' = None
    /\ corpus' = None
    /\ raised' = FALSE
    /\ stdout' = NoOutput
    /\ queries' = <<>>
    /\ first' = <<>>
    /\ loaded' = {}
    /\ UNCHANGED <<files, pickles, outfiles, ntext, nhist>>

\* Corpus level: corpora are built over the directory and their OOV lists
\* exported, in one process after another
Next ==
    \/ \E ignore_stress, cache, load_from_cache \in BOOLEAN :
            NewCorpus(ignore_stress, cache, load_from_cache)
    \/ \E outpath \in {NoName, OutPath} : ExportOovs(outpath)
    \/ NewProcess

Spec == Init /\ [][Next]_vars

\* Passage level: passages are constructed from strings of text, one after
\* another, sharing phoneme_cache within a process
NextPassage ==
    \/ \E raw \in RawTexts, ignore_stress \in BOOLEAN : NewPassage(raw, ignore_stress)
    \/ NewProcess

SpecPassage == Init /\ [][NextPassage]_vars

(***************************************************************************)
(* The normaliser on its own: any short string is cleaned, then the result *)
(* is cleaned again                                                        *)
(***************************************************************************)
InitNorm ==
    /\ InitProcess
    /\ files = (F1 :> Txt_tt_a_t_a_tt) @@ (Notes :> Txt_notes)
    /\ pickles = <<>>
    /\ outfiles = <<>>
    /\ ntext \in NormInputs
    /\ nhist = <<ntext>>

\* self.__clean_text()
CleanText ==
    /\ Len(nhist) < 3
    /\ ntext' = clean_text(ntext)
    /\ nhist' = Append(nhist, ntext')
    /\ UNCHANGED <<phoneme_cache, files, pickles, outfiles, passage, corpus, raised,
                   stdout, queries, first, loaded>>

NextNorm == CleanText

SpecNorm == InitNorm /\ [][NextNorm]_vars

(***************************************************************************)
(* Properties                                                              *)
(***************************************************************************)
\* the elements of a list
elems(seq) == {seq[i] : i \in 1..Len(seq)}

\* the number of occurrences of x in a list
occurrences(seq, x) == Cardinality({i \in 1..Len(seq) : seq[i] = x})

RECURSIVE lines_of(_)
\* the lines of a file content, the newline being the separator
lines_of(s) ==
    IF \E i \in 1..Len(s) : s[i] = NL
    THEN LET i == CHOOSE i \in 1..Len(s) : s[i] = NL /\ \A j \in 1..(i - 1) : s[j] # NL
         IN  <<SubSeq(s, 1, i - 1)>> \o lines_of(SubSeq(s, i + 1, Len(s)))
    ELSE <<s>>

\* the phoneme occurrences <<word index, phoneme index>> of a passage
Occ(p) == {o \in (1..Len(p.phon_trans)) \X (1..4) : o[2] <= Len(p.phon_trans[o[1]][2])}

\* the symbol counted for an occurrence
Sym(p, o) ==
    LET ph == p.phon_trans[o[1]][2][o[2]]
    IN  IF p.ignore_stress THEN strip_stress(ph) ELSE ph

\* the number of phonemes of the word of an occurrence
NPh(p, o) == Len(p.phon_trans[o[1]][2])

\* C1: for every Passage and every phoneme symbol k,
\* PhonemeCount[k] >= sum(PositionalPhonemeCount[k]), and the Validate step
\* of a construction never raises
C1_CountsDominate ==
    /\ ~raised
    /\ passage # None =>
          \A k \in DOMAIN passage.phoneme_count :
              /\ k \in DOMAIN passage.phoneme_count_by_pos
              /\ passage.phoneme_count[k] >=
                    passage.phoneme_count_by_pos[k][1] + passage.phoneme_count_by_pos[k][2]
                    + passage.phoneme_count_by_pos[k][3]

\* C1 witness: a passage with a symbol counted in no position (from a
\* one-phoneme word) and a symbol counted in two positions
C1_Witness ==
    /\ passage # None
    /\ \E k \in DOMAIN passage.phoneme_count :
          passage.phoneme_count[k] = 1 /\ passage.phoneme_count_by_pos[k] = <<0, 0, 0>>
    /\ \E k \in DOMAIN passage.phoneme_count :
          passage.phoneme_count[k] = 2 /\ passage.phoneme_count_by_pos[k] = <<1, 0, 1>>

\* C2: each word of a Passage's normalized text that has no pronunciation
\* in the dictionary is in that Passage's OOV list exactly once, whatever
\* Passages were constructed before
C2_OovListedOnce ==
    passage # None =>
        \A word \in elems(split(passage.text)) :
            (word # <<>> /\ cmudict_dict(word) = <<>>) =>
                occurrences(passage.oovs, word) = 1

\* C3: in one process the dictionary is queried at most once per word, and
\* every lookup of a word gives what its first lookup gave
C3_QueriedOnce ==
    /\ \A w \in DOMAIN queries : queries[w] <= 1
    /\ passage # None =>
          \A i \in 1..Len(passage.phon_trans) :
              /\ passage.phon_trans[i][1] \in DOMAIN first
              /\ passage.phon_trans[i][2] = first[passage.phon_trans[i][1]]

\* C3 witness: a passage that looked up an out-of-vocabulary word twice and
\* an in-vocabulary word, in a process that had queried other words before
C3_Witness ==
    /\ passage # None
    /\ \E i, j \in 1..Len(passage.phon_trans) :
          /\ i < j
          /\ passage.phon_trans[i][1] = passage.phon_trans[j][1]
          /\ passage.phon_trans[i][2] = <<>>
          /\ queries[passage.phon_trans[i][1]] = 1
    /\ \E i \in 1..Len(passage.phon_trans) : passage.phon_trans[i][2] # <<>>
    /\ \E w \in DOMAIN queries : w \notin elems(split(passage.text))

\* C6: in a word of n phonemes, n >= 2, index 0 counts as initial, index
\* n-1 as final and any other index as medial; a word of 0 or 1 phonemes
\* counts in no position; every occurrence counts in PhonemeCount
C6_Positions ==
    passage # None =>
        LET keys == {Sym(passage, o) : o \in Occ(passage)}
            in_long_word(k) ==
                {o \in Occ(passage) : Sym(passage, o) = k /\ NPh(passage, o) >= 2}
        IN  /\ DOMAIN passage.phoneme_count = keys
            /\ DOMAIN passage.phoneme_count_by_pos = keys
            /\ \A k \in keys :
                  /\ passage.phoneme_count[k] =
                        Cardinality({o \in Occ(passage) : Sym(passage, o) = k})
                  /\ passage.phoneme_count_by_pos[k][1] =
                        Cardinality({o \in in_long_word(k) : o[2] = 1})
                  /\ passage.phoneme_count_by_pos[k][2] =
                        Cardinality({o \in in_long_word(k) :
                                        o[2] # 1 /\ o[2] # NPh(passage, o)})
                  /\ passage.phoneme_count_by_pos[k][3] =
                        Cardinality({o \in in_long_word(k) : o[2] = NPh(passage, o)})

\* C6 witness: a passage with words of 0, 1, 2 and 4 phonemes
C6_Witness ==
    /\ passage # None
    /\ \A m \in {0, 1, 2, 4} :
          \E w \in 1..Len(passage.phon_trans) : Len(passage.phon_trans[w][2]) = m

\* C7: an empty normalized text gives an empty Transcription, n_words = 0,
\* an empty OOV list and no dictionary lookup
C7_EmptyText ==
    (passage # None /\ passage.text = <<>>) =>
        /\ passage.phon_trans = <<>>
        /\ passage.n_words = 0
        /\ passage.oovs = <<>>
        /\ <<>> \notin DOMAIN queries

\* C10: the Transcription and the counts of a Passage are those that the
\* same text and stress setting give when phoneme_cache is empty, whatever
\* Passages were constructed before it
C10_CacheIndependent ==
    passage # None =>
        LET t == to_phonemes(passage.text, EmptyMem).phon_transcript
            s == get_phoneme_stats(t, passage.ignore_stress)
        IN  /\ passage.phon_trans = t
            /\ passage.phoneme_count = s.phoneme_count
            /\ passage.phoneme_count_by_pos = s.phoneme_count_by_pos

\* C10 witness: a stress-keeping passage with a stressed phoneme whose
\* words were all in phoneme_cache already (its out-of-vocabulary word is
\* not in its OOV list)
C10_Witness ==
    /\ passage # None
    /\ ~passage.ignore_stress
    /\ passage.oovs = <<>>
    /\ \E i \in 1..Len(passage.phon_trans) : passage.phon_trans[i][2] = <<>>
    /\ P_AH0 \in DOMAIN passage.phoneme_count

\* C4: the OOV list of a Corpus holds exactly the words of the OOV lists
\* of its Passages, each once
C4_OovUnion ==
    corpus # None =>
        /\ elems(corpus.oovs) = UNION {elems(p.oovs) : p \in elems(corpus.passages)}
        /\ \A w \in elems(corpus.oovs) : occurrences(corpus.oovs, w) = 1

\* C4 witness: a corpus with a passage read from its pickle and a passage
\* constructed afresh that share an OOV word
C4_Witness ==
    /\ corpus # None
    /\ \E p, q \in elems(corpus.passages) :
          /\ p.name \in loaded
          /\ q.name \notin loaded
          /\ elems(p.oovs) \cap elems(q.oovs) # {}
    /\ Len(corpus.oovs) = 2

\* C5: a Passage that a build takes from the passage cache has the
\* Transcription, counts and OOV list that a fresh construction of its text
\* unit under this build's ignore_stress gives
C5_CachedAsFresh ==
    corpus # None =>
        \A p \in elems(corpus.passages) :
            p.name \in loaded =>
                LET f == new_passage(files[p.name], p.name, corpus.ignore_stress,
                                     EmptyMem).obj
                IN  /\ p.phon_trans = f.phon_trans
                    /\ p.phoneme_count = f.phoneme_count
                    /\ p.phoneme_count_by_pos = f.phoneme_count_by_pos
                    /\ p.oovs = f.oovs

\* C8: cleaning a cleaned text changes nothing
C8_Idempotent ==
    Len(nhist) = 3 => nhist[3] = nhist[2]

\* C8 witness: a text that cleaning changed into a non-empty text, cleaned
\* again
C8_Witness ==
    /\ Len(nhist) = 3
    /\ nhist[2] # nhist[1]
    /\ Len(nhist[2]) = 3

\* C9: export_oovs on a Corpus without OOV words writes no file and leaves
\* the Corpus as it is; with OOV words it writes them, one per line, to
\* outpath, or to oovs.txt in the corpus directory when outpath is None
C9_Export ==
    [][\A outpath \in {NoName, OutPath} :
          ExportOovs(outpath) =>
              /\ corpus' = corpus
              /\ pickles' = pickles
              /\ IF corpus.oovs = <<>>
                 THEN files' = files /\ outfiles' = outfiles
                 ELSE IF outpath = NoName
                 THEN /\ lines_of(files'[OovsTxt]) = corpus.oovs
                      /\ \A k \in DOMAIN files : k # OovsTxt => files'[k] = files[k]
                      /\ outfiles' = outfiles
                 ELSE /\ lines_of(outfiles'[outpath]) = corpus.oovs
                      /\ files' = files]_vars

\* C9 witness: a corpus without OOV words after an export that printed the
\* message, oovs.txt and the explicit outpath written by earlier exports
C9_Witness ==
    /\ corpus # None
    /\ corpus.oovs = <<>>
    /\ stdout = "No OOV words in the corpus."
    /\ OovsTxt \in DOMAIN files
    /\ OutPath \in DOMAIN outfiles
    /\ Len(lines_of(files[OovsTxt])) = 2

====
